---------------------------- MODULE Spec2Model ----------------------------
(* A model of multiworld/core/multitask_env.py: the module-level function  *)
(* goal_distance and the default methods of the abstract class             *)
(* MultitaskEnv (step, compute_reward_gym, _is_success, sample_goal,       *)
(* compute_reward, compute_rewards, unbatchify_dict, batchify_dict).       *)
(*                                                                         *)
(* Numbers.  A goal array holds floats; the model keeps the integer-valued *)
(* ones exactly, together with NaN (what a diverged simulation writes into *)
(* an observation).  A float that results from the Euclidean norm is kept  *)
(* exactly as a signed square root: [sgn, sq] stands for sgn * sqrt(sq).   *)
(* Float rounding is not modelled; -0.0 and 0.0 compare equal in Python    *)
(* and are one value here.                                                 *)
(*                                                                         *)
(* Arrays.  A numpy array is [shape |-> <<...>>, data |-> <<...>>] with    *)
(* the data in row-major order, so that indexing (v[i]) and adding a       *)
(* leading axis (v[None]) change the shape as numpy does.                  *)
(*                                                                         *)
(* Calls.  Every method call is one action.  It records the call in        *)
(* `call`, its outcome (a returned value or a raised exception) in `ret`,  *)
(* and the calls it made to the subclass-provided methods in `calls`.      *)
EXTENDS Integers, Sequences, FiniteSets

VARIABLES
    reward_type,          \* self.reward_type
    distance_threshold,   \* self.distance_threshold
    state_goal,           \* self._state_goal
    overrides,            \* does the subclass override compute_rewards?
    call,                 \* the last method call: its name and arguments
    ret,                  \* its outcome
    calls                 \* the subclass methods it called, with their results

vars == <<reward_type, distance_threshold, state_goal, overrides, call, ret, calls>>

-----------------------------------------------------------------------------
(* Bounds of the model.                                                    *)

\* goal coordinates and thresholds range over 0..MaxCoord (and NaN)
MaxCoord == 1

\* an array holds at most MaxSize elements
MaxSize == 2

-----------------------------------------------------------------------------
(* Floats.                                                                 *)

\* an integer-valued float, as an element of a goal array
Elem(v) == [nan |-> FALSE, v |-> v]

ElemNaN == [nan |-> TRUE, v |-> 0]

FiniteElems == {Elem(v) : v \in 0..MaxCoord}

Elems == FiniteElems \cup {ElemNaN}

\* a - b on floats: NaN if either operand is NaN
ElemSub(a, b) == IF a.nan \/ b.nan THEN ElemNaN ELSE Elem(a.v - b.v)

\* the real number sgn * sqrt(sq)
Real(sgn, sq) == [nan |-> FALSE, sgn |-> sgn, sq |-> sq]

NaN == [nan |-> TRUE, sgn |-> 0, sq |-> 0]

Sign(k) == IF k > 0 THEN 1 ELSE IF k < 0 THEN -1 ELSE 0

FromInt(k) == Real(Sign(k), k * k)

\* unary minus
Neg(x) == IF x.nan THEN x ELSE Real(-x.sgn, x.sq)

\* x < y; every comparison with NaN is false
Less(x, y) ==
    /\ ~x.nan
    /\ ~y.nan
    /\ IF x.sgn # y.sgn THEN x.sgn < y.sgn
       ELSE IF x.sgn = 1 THEN x.sq < y.sq
       ELSE IF x.sgn = -1 THEN x.sq > y.sq
       ELSE FALSE

\* x > y
Greater(x, y) == Less(y, x)

\* bool.astype(np.float32)
AsFloat(b) == IF b THEN FromInt(1) ELSE FromInt(0)

-----------------------------------------------------------------------------
(* Arrays.                                                                 *)

Array(shape, data) == [shape |-> shape, data |-> data]

RECURSIVE Prod(_)
Prod(s) == IF s = <<>> THEN 1 ELSE Head(s) * Prod(Tail(s))

\* the shapes of the model: vectors and batches of vectors
Shapes ==
    {<<z>> : z \in 1..MaxSize}
        \cup {<<b, z>> : b \in 1..MaxSize, z \in 1..MaxSize}

SmallShapes == {s \in Shapes : Prod(s) <= MaxSize}

ArraysOf(shape, E) == {Array(shape, d) : d \in [1..Prod(shape) -> E]}

\* arrays whose elements are all finite
FiniteArrays == UNION {ArraysOf(s, FiniteElems) : s \in SmallShapes}

\* arrays that may hold NaN
Arrays == UNION {ArraysOf(s, Elems) : s \in SmallShapes}

Zeros(shape) == Array(shape, [j \in 1..Prod(shape) |-> Elem(0)])

\* a - b, elementwise, for arrays of one shape
ArraySub(a, b) ==
    Array(a.shape, [j \in 1..Len(a.data) |-> ElemSub(a.data[j], b.data[j])])

\* the sum of the squares of d[lo..hi], as the square of a real; NaN if any is NaN
RECURSIVE SumSq(_, _, _)
SumSq(d, lo, hi) ==
    IF lo > hi THEN FromInt(0)
    ELSE LET rest == SumSq(d, lo + 1, hi)
         IN  IF d[lo].nan \/ rest.nan THEN NaN
             ELSE Real(1, d[lo].v * d[lo].v + rest.sq)

\* the square root of a sum of squares
Sqrt(s) == IF s.nan THEN NaN ELSE Real(Sign(s.sq), s.sq)

\* np.linalg.norm(x, axis=-1): one norm per row of the last axis
NormLastAxis(x) ==
    LET z == x.shape[Len(x.shape)]
        outer == SubSeq(x.shape, 1, Len(x.shape) - 1)
    IN  Array(outer,
              [j \in 1..Prod(outer) |-> Sqrt(SumSq(x.data, (j - 1) * z + 1, j * z))])

\* elementwise unary minus
ArrayNeg(x) == Array(x.shape, [j \in 1..Len(x.data) |-> Neg(x.data[j])])

\* -(d > t).astype(np.float32), elementwise
NegExceeds(d, t) ==
    Array(d.shape, [j \in 1..Len(d.data) |-> Neg(AsFloat(Greater(d.data[j], t)))])

\* (d < t).astype(np.float32), elementwise
Below(d, t) ==
    Array(d.shape, [j \in 1..Len(d.data) |-> AsFloat(Less(d.data[j], t))])

-----------------------------------------------------------------------------
(* Outcomes of a call.                                                     *)

Return(v) == [kind |-> "return", value |-> v]

Raise(e) == [kind |-> "raise", value |-> e]

NoCall == [op |-> "none"]

NoResult == [kind |-> "none", value |-> "none"]

-----------------------------------------------------------------------------
(* goal_distance and the reward path.                                      *)

\* goal_distance with the assertion on the sizes instead of the shapes
goal_distance_size(goal_a, goal_b) ==
    IF Len(goal_a.data) # Len(goal_b.data) THEN Raise("AssertionError")
    ELSE Return(NormLastAxis(ArraySub(goal_a, goal_b)))

goal_distance(goal_a, goal_b) ==
    IF goal_a.shape # goal_b.shape THEN Raise("AssertionError")
    ELSE Return(NormLastAxis(ArraySub(goal_a, goal_b)))

\* compute_reward_gym with >= for >
compute_reward_gym_ge(achieved_goal, desired_goal, info) ==
    LET d == goal_distance(achieved_goal, desired_goal)
    IN  IF d.kind = "raise" THEN d
        ELSE IF reward_type = "sparse"
             THEN Return(Array(d.value.shape,
                     [j \in 1..Len(d.value.data) |->
                         Neg(AsFloat(Greater(d.value.data[j], distance_threshold)
                                        \/ d.value.data[j] = distance_threshold))]))
             ELSE Return(ArrayNeg(d.value))

\* compute_reward_gym with every reward_type but "dense" taken as sparse
compute_reward_gym_not_dense(achieved_goal, desired_goal, info) ==
    LET d == goal_distance(achieved_goal, desired_goal)
    IN  IF d.kind = "raise" THEN d
        ELSE IF reward_type # "dense"
             THEN Return(NegExceeds(d.value, distance_threshold))
             ELSE Return(ArrayNeg(d.value))

compute_reward_gym(achieved_goal, desired_goal, info) ==
    LET d == goal_distance(achieved_goal, desired_goal)
    IN  IF d.kind = "raise" THEN d
        ELSE IF reward_type = "sparse"
             THEN Return(NegExceeds(d.value, distance_threshold))
             ELSE Return(ArrayNeg(d.value))

\* _is_success with <= for <
is_success_le(achieved_goal, desired_goal) ==
    LET d == goal_distance(achieved_goal, desired_goal)
    IN  IF d.kind = "raise" THEN d
        ELSE Return(Array(d.value.shape,
                [j \in 1..Len(d.value.data) |->
                    AsFloat(Less(d.value.data[j], distance_threshold)
                               \/ d.value.data[j] = distance_threshold)]))

is_success(achieved_goal, desired_goal) ==
    LET d == goal_distance(achieved_goal, desired_goal)
    IN  IF d.kind = "raise" THEN d
        ELSE Return(Below(d.value, distance_threshold))

\* step that ends the episode when the goal is reached
step_done_on_success(ob) ==
    LET success == is_success(ob["achieved_goal"], state_goal)
    IN  IF success.kind = "raise" THEN success
        ELSE LET info == [is_success |-> success.value]
                 reward == compute_reward_gym(ob["achieved_goal"], state_goal, info)
             IN  IF reward.kind = "raise" THEN reward
                 ELSE Return([ob |-> ob, reward |-> reward.value,
                              done |-> \E j \in 1..Len(success.value.data) :
                                          success.value.data[j] = FromInt(1),
                              info |-> info])

\* step, given the observation that self._get_obs() returns
step(ob) ==
    LET success == is_success(ob["achieved_goal"], state_goal)
    IN  IF success.kind = "raise" THEN success
        ELSE LET info == [is_success |-> success.value]
                 reward == compute_reward_gym(ob["achieved_goal"], state_goal, info)
             IN  IF reward.kind = "raise" THEN reward
                 ELSE Return([ob |-> ob, reward |-> reward.value,
                              done |-> FALSE, info |-> info])

-----------------------------------------------------------------------------
(* Indexing, and the batch helpers.                                        *)

\* None, what a method without a return statement returns
None == [none |-> TRUE]

IsNone(v) == DOMAIN v = {"none"}

\* v[None]: a leading axis of length one
AddAxis(v) == Array(<<1>> \o v.shape, v.data)

\* v[i] on an array of at least one axis: row i, counted from the end when
\* i is negative; IndexError when i is out of bounds
ArrayIndex(v, i) ==
    LET n == v.shape[1]
        row == Prod(Tail(v.shape))
        at == IF i < 0 THEN i + n ELSE i
    IN  IF i < -n \/ i >= n THEN Raise("IndexError")
        ELSE Return(Array(Tail(v.shape), SubSeq(v.data, at * row + 1, (at + 1) * row)))

\* x[i] for any value x: None is not subscriptable
Subscript(x, i) == IF IsNone(x) THEN Raise("TypeError") ELSE ArrayIndex(x, i)

unbatchify_dict(batch_dict, i) ==
    LET item == [k \in DOMAIN batch_dict |-> ArrayIndex(batch_dict[k], i)]
    IN  IF \E k \in DOMAIN batch_dict : item[k].kind = "raise"
        THEN Raise("IndexError")
        ELSE Return([k \in DOMAIN batch_dict |-> item[k].value])

\* batchify_dict that batches: a leading axis on every value
batchify_dict_batches(batch_dict, i) ==
    Return([k \in DOMAIN batch_dict |-> AddAxis(batch_dict[k])])

batchify_dict(batch_dict, i) ==
    LET item == [k \in DOMAIN batch_dict |-> ArrayIndex(batch_dict[k], i)]
    IN  IF \E k \in DOMAIN batch_dict : item[k].kind = "raise"
        THEN Raise("IndexError")
        ELSE Return([k \in DOMAIN batch_dict |-> item[k].value])

\* {k: v[None] for k, v in obs.items()}
BatchOfOne(obs) == [k \in DOMAIN obs |-> AddAxis(obs[k])]

-----------------------------------------------------------------------------
(* The methods a subclass provides, and the wrappers around them.          *)

\* batch_size copies of the vector v, one per row
Tile(v, batch_size) ==
    Array(<<batch_size>> \o v.shape,
          [j \in 1..(batch_size * Len(v.data)) |-> v.data[((j - 1) % Len(v.data)) + 1]])

\* sample_goals of a subclass whose sampler draws the goal `drawn`: a
\* mapping from the goal keys to arrays of BATCH_SIZE x Z
sample_goals(batch_size, drawn) == [k \in DOMAIN drawn |-> Tile(drawn[k], batch_size)]

\* compute_rewards whose base-class body raises
compute_rewards_raises(actions, obs, subclass_rewards) ==
    IF overrides THEN Return(subclass_rewards) ELSE Raise("NotImplementedError")

\* compute_rewards: the subclass's rewards when it overrides the method,
\* and the body `pass` of the base class when it does not
compute_rewards(actions, obs, subclass_rewards) ==
    IF overrides THEN Return(subclass_rewards) ELSE Return(None)

\* sample_goal that returns the batch of one as it is
sample_goal_batched(drawn) ==
    LET goals == sample_goals(1, drawn)
    IN  [ret |-> Return(goals),
         calls |-> <<[method |-> "sample_goals", batch_size |-> 1, result |-> goals]>>]

\* sample_goal: the outcome, and the calls made to the subclass
sample_goal(drawn) ==
    LET goals == sample_goals(1, drawn)
    IN  [ret |-> unbatchify_dict(goals, 0),
         calls |-> <<[method |-> "sample_goals", batch_size |-> 1, result |-> goals]>>]

\* compute_reward that passes the single action and observation on as they are
compute_reward_unbatched(action, obs, subclass_rewards) ==
    LET rewards == compute_rewards(action, obs, subclass_rewards)
    IN  [ret |-> Subscript(rewards.value, 0),
         calls |-> <<[method |-> "compute_rewards", actions |-> action,
                      obs |-> obs, result |-> rewards.value]>>]

\* compute_reward: the outcome, and the calls made to the subclass
compute_reward(action, obs, subclass_rewards) ==
    LET actions == AddAxis(action)
        next_obs == BatchOfOne(obs)
        rewards == compute_rewards(actions, next_obs, subclass_rewards)
    IN  [ret |-> Subscript(rewards.value, 0),
         calls |-> <<[method |-> "compute_rewards", actions |-> actions,
                      obs |-> next_obs, result |-> rewards.value]>>]

-----------------------------------------------------------------------------
(* The instance after construction.                                        *)

RewardTypes == {"sparse", "dense", "sparce"}

Thresholds == {FromInt(t) : t \in 0..MaxCoord} \cup {NaN}

\* the info mappings a caller passes to compute_reward_gym
Infos == {[is_success |-> Array(<<>>, <<FromInt(b)>>)] : b \in {0, 1}}

\* the goals an array is compared with: those of its own shape, and one of
\* every other shape (the data of a mis-shaped array is never read)
Comparable(goal) ==
    {a \in Arrays : a.shape = goal.shape}
        \cup {Zeros(s) : s \in SmallShapes \ {goal.shape}}

Config == <<reward_type, distance_threshold, state_goal, overrides>>

\* the caller is between two calls
Idle == call.op = "none"

Init ==
    /\ reward_type \in RewardTypes
    /\ distance_threshold \in Thresholds
    /\ state_goal \in FiniteArrays
    /\ overrides = FALSE
    /\ call = NoCall
    /\ ret = NoResult
    /\ calls = <<>>

GoalDistance ==
    /\ Idle
    /\ \E goal_a \in Comparable(state_goal) :
          /\ call' = [op |-> "goal_distance", goal_a |-> goal_a, goal_b |-> state_goal]
          /\ ret' = goal_distance(goal_a, state_goal)
    /\ calls' = <<>>
    /\ UNCHANGED Config

ComputeRewardGym ==
    /\ Idle
    /\ \E achieved_goal \in Comparable(state_goal), info \in Infos :
          /\ call' = [op |-> "compute_reward_gym", achieved_goal |-> achieved_goal,
                      desired_goal |-> state_goal, info |-> info]
          /\ ret' = compute_reward_gym(achieved_goal, state_goal, info)
    /\ calls' = <<>>
    /\ UNCHANGED Config

IsSuccess ==
    /\ Idle
    /\ \E achieved_goal \in Comparable(state_goal) :
          /\ call' = [op |-> "_is_success", achieved_goal |-> achieved_goal,
                      desired_goal |-> state_goal]
          /\ ret' = is_success(achieved_goal, state_goal)
    /\ calls' = <<>>
    /\ UNCHANGED Config

Step ==
    /\ Idle
    /\ \E achieved_goal \in Comparable(state_goal) :
          LET ob == [achieved_goal |-> achieved_goal]
          IN  /\ call' = [op |-> "step", ob |-> ob]
              /\ ret' = step(ob)
    /\ calls' = <<>>
    /\ UNCHANGED Config

\* the call is over: its caller has the outcome and goes on to the next call
Continue ==
    /\ ~Idle
    /\ call' = NoCall
    /\ ret' = NoResult
    /\ calls' = <<>>
    /\ UNCHANGED Config

-----------------------------------------------------------------------------
(* The batch helpers and wrappers: their inputs and their calls.           *)

GoalKeys == {"desired_goal", "state_desired_goal"}

ObsKeys == {"achieved_goal", "desired_goal"}

\* the mappings from some of the keys K to values in A
DictsOver(K, A) == UNION {[S -> A] : S \in SUBSET K}

\* single vectors
Vectors == {a \in FiniteArrays : Len(a.shape) = 1}

\* batches of vectors
Batches == {a \in FiniteArrays : Len(a.shape) = 2}

BatchesOf(n) == {a \in Batches : a.shape[1] = n}

BatchSizes == {a.shape[1] : a \in Batches}

Indices == (-(MaxSize + 1))..MaxSize

\* the rewards a subclass returns for a batch of n: one per row
SubclassRewards(n) ==
    IF overrides
    THEN {Array(<<n>>, d) : d \in [1..n -> {FromInt(-1), FromInt(0)}]}
    ELSE {None}

InitBatch ==
    /\ reward_type = "dense"
    /\ distance_threshold = FromInt(0)
    /\ state_goal = Zeros(<<1>>)
    /\ overrides \in BOOLEAN
    /\ call = NoCall
    /\ ret = NoResult
    /\ calls = <<>>

UnbatchifyDict ==
    /\ Idle
    /\ \E batch_dict \in DictsOver(GoalKeys, Batches), i \in Indices :
          /\ call' = [op |-> "unbatchify_dict", batch_dict |-> batch_dict, i |-> i]
          /\ ret' = unbatchify_dict(batch_dict, i)
    /\ calls' = <<>>
    /\ UNCHANGED Config

BatchifyDict ==
    /\ Idle
    /\ \E batch_dict \in DictsOver(GoalKeys, Batches), i \in Indices :
          /\ call' = [op |-> "batchify_dict", batch_dict |-> batch_dict, i |-> i]
          /\ ret' = batchify_dict(batch_dict, i)
    /\ calls' = <<>>
    /\ UNCHANGED Config

SampleGoal ==
    /\ Idle
    /\ \E drawn \in DictsOver(GoalKeys, Vectors) :
          LET r == sample_goal(drawn)
          IN  /\ call' = [op |-> "sample_goal"]
              /\ ret' = r.ret
              /\ calls' = r.calls
    /\ UNCHANGED Config

ComputeRewards ==
    /\ Idle
    /\ \E n \in BatchSizes :
          \E actions \in BatchesOf(n), obs \in DictsOver(ObsKeys, BatchesOf(n)),
             subclass_rewards \in SubclassRewards(n) :
                /\ call' = [op |-> "compute_rewards", actions |-> actions, obs |-> obs]
                /\ ret' = compute_rewards(actions, obs, subclass_rewards)
    /\ calls' = <<>>
    /\ UNCHANGED Config

ComputeReward ==
    /\ Idle
    /\ \E action \in Vectors, obs \in DictsOver(ObsKeys, Vectors),
          subclass_rewards \in SubclassRewards(1) :
             LET r == compute_reward(action, obs, subclass_rewards)
             IN  /\ call' = [op |-> "compute_reward", action |-> action, obs |-> obs]
                 /\ ret' = r.ret
                 /\ calls' = r.calls
    /\ UNCHANGED Config

Next == GoalDistance \/ ComputeRewardGym \/ IsSuccess \/ Step \/ Continue

Spec == Init /\ [][Next]_vars

BatchNext ==
    UnbatchifyDict \/ BatchifyDict \/ SampleGoal \/ ComputeRewards \/ ComputeReward
        \/ Continue

BatchSpec == InitBatch /\ [][BatchNext]_vars

-----------------------------------------------------------------------------
(* Properties of the reward path, checked under Spec.                      *)

\* x <= y; every comparison with NaN is false
Leq(x, y) == ~x.nan /\ ~y.nan /\ ~Less(y, x)

Minus1 == FromInt(-1)

Zero == FromInt(0)

One == FromInt(1)

\* the goals of the last call: of equal shape?
SameShape(a, b) == a.shape = b.shape

\* the distances of the goals a and b of equal shape, one per row
Distances(a, b) == goal_distance(a, b).value.data

\* C1: with reward_type "sparse", compute_reward_gym on goals of equal shape
\* returns -1 where the distance is greater than distance_threshold and 0
\* where it is less than or equal to it, never another value, and the same
\* for every info.
SparseRewardIsThresholded ==
    (/\ call.op = "compute_reward_gym"
     /\ reward_type = "sparse"
     /\ SameShape(call.achieved_goal, call.desired_goal))
      => LET d == Distances(call.achieved_goal, call.desired_goal)
         IN  /\ ret.kind = "return"
             /\ Len(ret.value.data) = Len(d)
             /\ \A j \in 1..Len(d) :
                   /\ Greater(d[j], distance_threshold) => ret.value.data[j] = Minus1
                   /\ Leq(d[j], distance_threshold) => ret.value.data[j] = Zero
                   /\ ret.value.data[j] \in {Minus1, Zero}
             /\ \A info \in Infos :
                   compute_reward_gym(call.achieved_goal, call.desired_goal, info) = ret

\* a batch of two goals, one beyond the threshold and one within it
SparseRewardBothValues ==
    /\ call.op = "compute_reward_gym"
    /\ reward_type = "sparse"
    /\ ret.kind = "return"
    /\ \E j, k \in 1..Len(ret.value.data) :
          /\ ret.value.data[j] = Minus1
          /\ ret.value.data[k] = Zero
          /\ Distances(call.achieved_goal, call.desired_goal)[k] = distance_threshold

\* C2: _is_success is 1.0 where the distance is less than distance_threshold
\* and 0.0 elsewhere; where the distance equals distance_threshold it is
\* 0.0, while the sparse reward of the same goals is 0.
SuccessIsStrict ==
    (/\ call.op = "_is_success"
     /\ SameShape(call.achieved_goal, call.desired_goal))
      => LET d == Distances(call.achieved_goal, call.desired_goal)
         IN  /\ ret.kind = "return"
             /\ Len(ret.value.data) = Len(d)
             /\ \A j \in 1..Len(d) :
                   /\ ret.value.data[j] =
                         (IF Less(d[j], distance_threshold) THEN One ELSE Zero)
                   /\ (d[j] = distance_threshold /\ reward_type = "sparse")
                         => /\ ret.value.data[j] = Zero
                            /\ \A info \in Infos :
                                  compute_reward_gym(call.achieved_goal,
                                      call.desired_goal, info).value.data[j] = Zero

\* a distance equal to the threshold: no success, and a sparse reward of 0
SuccessAtThreshold ==
    /\ call.op = "_is_success"
    /\ reward_type = "sparse"
    /\ ret.kind = "return"
    /\ \E j \in 1..Len(ret.value.data) :
          /\ Distances(call.achieved_goal, call.desired_goal)[j] = distance_threshold
          /\ ret.value.data[j] = Zero
          /\ \E info \in Infos :
                compute_reward_gym(call.achieved_goal, call.desired_goal,
                                   info).value.data[j] = Zero

\* C3: with any reward_type but "sparse", compute_reward_gym on goals of
\* equal shape returns the negated distances, whatever the threshold.
DenseRewardIsNegatedDistance ==
    (/\ call.op = "compute_reward_gym"
     /\ reward_type # "sparse"
     /\ SameShape(call.achieved_goal, call.desired_goal))
      => LET d == Distances(call.achieved_goal, call.desired_goal)
         IN  /\ ret.kind = "return"
             /\ Len(ret.value.data) = Len(d)
             /\ \A j \in 1..Len(d) : ret.value.data[j] = Neg(d[j])

\* a misspelled reward_type and a distance beyond the threshold
DenseRewardMisspelled ==
    /\ call.op = "compute_reward_gym"
    /\ reward_type = "sparce"
    /\ ret.kind = "return"
    /\ \E j \in 1..Len(ret.value.data) :
          /\ Greater(Distances(call.achieved_goal, call.desired_goal)[j],
                     distance_threshold)
          /\ ret.value.data[j].sgn = -1
          /\ ret.value.data[j] # Minus1

\* C4: every step that returns reports done = False.
StepNeverDone ==
    (call.op = "step" /\ ret.kind = "return") => ret.value.done = FALSE

\* a step that reaches the goal: success 1.0, sparse reward 0
StepAtGoal ==
    /\ call.op = "step"
    /\ reward_type = "sparse"
    /\ ret.kind = "return"
    /\ ret.value.done = FALSE
    /\ ret.value.info["is_success"].data = <<One>>
    /\ ret.value.reward.data = <<Zero>>

\* C8: goals of different shapes: goal_distance, compute_reward_gym,
\* _is_success and step all end in the AssertionError, with no result.
ShapeMismatchIsFatal ==
    /\ (call.op = "goal_distance" /\ ~SameShape(call.goal_a, call.goal_b))
          => ret = Raise("AssertionError")
    /\ (/\ call.op \in {"compute_reward_gym", "_is_success"}
        /\ ~SameShape(call.achieved_goal, call.desired_goal))
          => ret = Raise("AssertionError")
    /\ (call.op = "step" /\ ~SameShape(call.ob["achieved_goal"], state_goal))
          => ret = Raise("AssertionError")

\* a step whose achieved goal has the elements of the goal in another shape
StepShapeMismatch ==
    /\ call.op = "step"
    /\ ~SameShape(call.ob["achieved_goal"], state_goal)
    /\ Len(call.ob["achieved_goal"].data) = Len(state_goal.data)
    /\ ret = Raise("AssertionError")

\* the reward and the success of a returned step, row by row
StepRows == 1..Len(ret.value.reward.data)

StepDistances == Distances(call.ob["achieved_goal"], state_goal)

\* reward and success of a step come from its observation and _state_goal
StepFromOneObservation ==
    /\ ret.value.ob = call.ob
    /\ Return(ret.value.info["is_success"]) =
          is_success(call.ob["achieved_goal"], state_goal)
    /\ \A info \in Infos :
          Return(ret.value.reward) =
             compute_reward_gym(call.ob["achieved_goal"], state_goal, info)

StepOneWayConsistent ==
    \A j \in StepRows :
       /\ ret.value.info["is_success"].data[j] = One => ret.value.reward.data[j] = Zero
       /\ ret.value.reward.data[j] = Minus1
             => ret.value.info["is_success"].data[j] = Zero

\* C10 as stated: with reward_type "sparse", reward and is_success of a
\* returned step come from one observation, are one-way consistent, and
\* reward = 0 with is_success = 0.0 only where the distance equals the
\* threshold.
StepDisagreesOnlyAtThreshold ==
    (call.op = "step" /\ reward_type = "sparse" /\ ret.kind = "return")
      => /\ StepFromOneObservation
         /\ StepOneWayConsistent
         /\ \A j \in StepRows :
               (/\ ret.value.reward.data[j] = Zero
                /\ ret.value.info["is_success"].data[j] = Zero)
                  => StepDistances[j] = distance_threshold

\* What the code guarantees in place of C10: reward = 0 with
\* is_success = 0.0 only where the distance equals the threshold, or where
\* the distance or the threshold is NaN (both comparisons are then false).
StepDisagreesAtThresholdOrNaN ==
    (call.op = "step" /\ reward_type = "sparse" /\ ret.kind = "return")
      => /\ StepFromOneObservation
         /\ StepOneWayConsistent
         /\ \A j \in StepRows :
               (/\ ret.value.reward.data[j] = Zero
                /\ ret.value.info["is_success"].data[j] = Zero)
                  => \/ StepDistances[j] = distance_threshold
                     \/ StepDistances[j].nan
                     \/ distance_threshold.nan

-----------------------------------------------------------------------------
(* Properties of the batch helpers and wrappers, checked under BatchSpec.  *)

\* row i of the batch v, counted from the end when i is negative
Row(v, i) ==
    LET at == IF i < 0 THEN i + v.shape[1] ELSE i
        size == Len(v.data) \div v.shape[1]
    IN  Array(Tail(v.shape), [j \in 1..size |-> v.data[at * size + j]])

\* i is an index of every array of batch_dict
ValidIndex(batch_dict, i) ==
    \A k \in DOMAIN batch_dict : -batch_dict[k].shape[1] <= i /\ i < batch_dict[k].shape[1]

\* v with a leading axis of length one
IsBatchOfOne(batch, v) == batch.shape = <<1>> \o v.shape /\ batch.data = v.data

\* C5: compute_reward calls compute_rewards once, on the action and on
\* every value of obs (same keys) wrapped into a batch of one, and its
\* outcome is element 0 of what that call returned (a TypeError when that
\* is None, which has no element 0).
ComputeRewardIsBatchOfOne ==
    call.op = "compute_reward"
      => /\ Len(calls) = 1
         /\ calls[1].method = "compute_rewards"
         /\ IsBatchOfOne(calls[1].actions, call.action)
         /\ DOMAIN calls[1].obs = DOMAIN call.obs
         /\ \A k \in DOMAIN call.obs : IsBatchOfOne(calls[1].obs[k], call.obs[k])
         /\ IF IsNone(calls[1].result)
            THEN ret = Raise("TypeError")
            ELSE ret = Return(Row(calls[1].result, 0))

\* a reward computed by an overriding subclass from an observation of two keys
ComputeRewardOverridden ==
    /\ call.op = "compute_reward"
    /\ overrides
    /\ DOMAIN call.obs = ObsKeys
    /\ Len(call.action.data) > 1
    /\ ret = Return(Array(<<>>, <<Minus1>>))

\* C6: sample_goal calls sample_goals once, with batch_size 1, and returns
\* unbatchify_dict of the result at index 0: the keys of the batch, each
\* with element 0 of its array.
SampleGoalIsFirstOfBatch ==
    call.op = "sample_goal"
      => /\ Len(calls) = 1
         /\ calls[1].method = "sample_goals"
         /\ calls[1].batch_size = 1
         /\ ret.kind = "return"
         /\ ret = unbatchify_dict(calls[1].result, 0)
         /\ DOMAIN ret.value = DOMAIN calls[1].result
         /\ \A k \in DOMAIN ret.value : ret.value[k] = Row(calls[1].result[k], 0)

\* a sampled goal of two keys, one of them a vector of several coordinates
SampleGoalTwoKeys ==
    /\ call.op = "sample_goal"
    /\ ret.kind = "return"
    /\ DOMAIN ret.value = GoalKeys
    /\ \E k \in GoalKeys : Len(ret.value[k].data) > 1 /\ ret.value[k].shape # <<1>>

\* C7: at a valid index i, unbatchify_dict and batchify_dict return the
\* same mapping: the keys of batch_dict, each with row i of its array; and
\* at index 0 of a batch of one it is the goal that was batched.
DictHelpersSlice ==
    (/\ call.op \in {"unbatchify_dict", "batchify_dict"}
     /\ ValidIndex(call.batch_dict, call.i))
      => /\ ret.kind = "return"
         /\ DOMAIN ret.value = DOMAIN call.batch_dict
         /\ \A k \in DOMAIN call.batch_dict :
               ret.value[k] = Row(call.batch_dict[k], call.i)
         /\ unbatchify_dict(call.batch_dict, call.i) =
               batchify_dict(call.batch_dict, call.i)
         /\ (call.i = 0 /\ \A k \in DOMAIN call.batch_dict :
                              call.batch_dict[k].shape[1] = 1)
               => BatchOfOne(ret.value) = call.batch_dict

\* batchify_dict at index 0 of a batch of one, of two keys
DictRoundTrip ==
    /\ call.op = "batchify_dict"
    /\ call.i = 0
    /\ DOMAIN call.batch_dict = GoalKeys
    /\ \A k \in GoalKeys : call.batch_dict[k].shape[1] = 1
    /\ ret.kind = "return"
    /\ BatchOfOne(ret.value) = call.batch_dict

\* C9: without an override, compute_rewards returns None and raises
\* nothing, whatever its arguments.
DefaultComputeRewardsIsNone ==
    (call.op = "compute_rewards" /\ ~overrides) => ret = Return(None)

\* the base-class compute_rewards on a batch observation of two keys
DefaultComputeRewardsCalled ==
    /\ call.op = "compute_rewards"
    /\ ~overrides
    /\ DOMAIN call.obs = ObsKeys
    /\ ret = Return(None)

=============================================================================
